---- MODULE Spec2Model ----
(***************************************************************************)
(* A model of the ASR server: the configuration loader (src/src/config.py), *)
(* the whisper-cli wrapper (src/src/transcription.py) and the FastAPI       *)
(* application that serves it on one asyncio event loop                     *)
(* (src/src/server.py).                                                     *)
(*                                                                          *)
(* Text that the code inspects character by character (the engine's         *)
(* standard output and standard error, exception messages, response         *)
(* details) is a sequence of one-character strings.  Command-line           *)
(* arguments are TLA+ strings, one per argv element.                        *)
(***************************************************************************)
EXTENDS Integers, Sequences, FiniteSets, TLC

VARIABLES
    phase,          \* "imported" | "serving" | "aborted": the process' life
    modelFile,      \* whether the resolved model path exists on disk
    cfgSrc,         \* the configuration source config.yaml holds
    config,         \* server.config: NoConfig or the loaded Config
    transcriber,    \* server.transcriber: NoTranscriber or the Transcriber
    startupError,   \* the exception that aborted lifespan startup, or ""
    loop,           \* the request whose coroutine holds the event loop, or 0
    req,            \* the requests in flight, per connection slot
    fs,             \* the temporary files that exist in the temp directory
    last,           \* the response the step just taken produced, or NoResponse
    arg,            \* input of the function under check (ConfigSpec, CleanSpec)
    ret             \* its output

vars == <<phase, modelFile, cfgSrc, config, transcriber, startupError,
          loop, req, fs, last, arg, ret>>

----------------------------------------------------------------------------
(* Bounds of the model. *)

\* connection slots: how many requests can be in flight at once
NumRequests == 2
\* names the temporary directory can hand out
NumTmpNames == 2
\* pieces an engine output is assembled from in CleanSpec
MaxPieces == 3

----------------------------------------------------------------------------
(* Python values. *)

\* language: str = None
NoLanguage == "<None>"

\* bool(s) of a str-or-None: None and "" are falsy
Truthy(s) == s # NoLanguage /\ s # ""

Digit == <<"0", "1", "2", "3", "4", "5", "6", "7", "8", "9">>

\* str(n) of a non-negative int
RECURSIVE IntToStr(_)
IntToStr(n) ==
    IF n < 10 THEN Digit[n + 1]
    ELSE IntToStr(n \div 10) \o Digit[(n % 10) + 1]

\* str(x) of a float given in tenths: 5 is 0.5, 10 is 1.0
FloatToStr(tenths) == IntToStr(tenths \div 10) \o "." \o IntToStr(tenths % 10)

----------------------------------------------------------------------------
(* config.py *)

ServerConfig == [host |-> "0.0.0.0", port |-> 8005]

WhisperConfig == [model_path |-> "models/ggml-base.bin", language |-> "en",
                  threads |-> 4]

\* threshold in tenths
VADConfig == [enabled |-> TRUE, threshold |-> 5,
              min_speech_duration_ms |-> 250, min_silence_duration_ms |-> 700]

Config == [server |-> ServerConfig, whisper |-> WhisperConfig, vad |-> VADConfig]

SectionNames == {"server", "whisper", "vad"}

\* The dataclass constructor Cls(**kwargs): an unexpected keyword is a
\* TypeError, a keyword given overrides the field's default.
Construct(defaults, kwargs) ==
    IF DOMAIN kwargs \subseteq DOMAIN defaults
    THEN [ok |-> TRUE,
          value |-> [f \in DOMAIN defaults |->
                        IF f \in DOMAIN kwargs THEN kwargs[f] ELSE defaults[f]]]
    ELSE [ok |-> FALSE, value |-> defaults]

\* data.get(name, {})
SectionGet(data, name) == IF name \in DOMAIN data THEN data[name] ELSE <<>>

\* yaml.safe_load(f) or {}: an empty document loads as None
LoadedOrEmpty(doc) == IF doc.empty THEN <<>> ELSE doc.data

\* a file whose empty document is not replaced by {}: None.get fails
load_config_NoEmptyGuard(source) ==
    IF ~source.exists THEN [ok |-> TRUE, error |-> "", value |-> Config]
    ELSE IF source.empty THEN [ok |-> FALSE, error |-> "AttributeError", value |-> Config]
    ELSE LET data == source.data
             s == Construct(ServerConfig, SectionGet(data, "server"))
             w == Construct(WhisperConfig, SectionGet(data, "whisper"))
             v == Construct(VADConfig, SectionGet(data, "vad"))
         IN IF s.ok /\ w.ok /\ v.ok
            THEN [ok |-> TRUE, error |-> "",
                  value |-> [server |-> s.value, whisper |-> w.value, vad |-> v.value]]
            ELSE [ok |-> FALSE, error |-> "TypeError", value |-> Config]

load_config(source) ==
    IF ~source.exists THEN [ok |-> TRUE, error |-> "", value |-> Config]
    ELSE LET data == LoadedOrEmpty(source)
             s == Construct(ServerConfig, SectionGet(data, "server"))
             w == Construct(WhisperConfig, SectionGet(data, "whisper"))
             v == Construct(VADConfig, SectionGet(data, "vad"))
         IN IF s.ok /\ w.ok /\ v.ok
            THEN [ok |-> TRUE, error |-> "",
                  value |-> [server |-> s.value, whisper |-> w.value, vad |-> v.value]]
            ELSE [ok |-> FALSE, error |-> "TypeError", value |-> Config]

(* Configuration sources. *)

MissingFile == [exists |-> FALSE, empty |-> TRUE, data |-> <<>>]
EmptyFile == [exists |-> TRUE, empty |-> TRUE, data |-> <<>>]
FileWith(data) == [exists |-> TRUE, empty |-> FALSE, data |-> data]

\* the values a source may give a field: the default and one other
FieldValues ==
    [server |-> [host |-> {"0.0.0.0", "127.0.0.1"}, port |-> {8005, 9000}],
     whisper |-> [model_path |-> {"models/ggml-base.bin", "models/ggml-tiny.bin"},
                  language |-> {"en", "fr"}, threads |-> {4, 12}],
     vad |-> [enabled |-> {TRUE, FALSE}, threshold |-> {5, 10},
              min_speech_duration_ms |-> {250, 90},
              min_silence_duration_ms |-> {700, 1500}]]

FieldOrder ==
    [server |-> <<"host", "port">>,
     whisper |-> <<"model_path", "language", "threads">>,
     vad |-> <<"enabled", "threshold", "min_speech_duration_ms",
               "min_silence_duration_ms">>]

\* every keyword set over the given fields of a section: each field absent
\* or given one of its values
RECURSIVE KeywordSets(_, _)
KeywordSets(name, fields) ==
    IF fields = <<>> THEN {<<>>}
    ELSE LET rest == KeywordSets(name, Tail(fields))
             f == Head(fields)
         IN rest \cup {(f :> v) @@ kw : kw \in rest, v \in FieldValues[name][f]}

\* every document over the given sections: each section absent or given by
\* some of its fields
RECURSIVE Documents(_)
Documents(names) ==
    IF names = <<>> THEN {<<>>}
    ELSE LET rest == Documents(Tail(names))
             n == Head(names)
         IN rest \cup {(n :> kw) @@ d : d \in rest, kw \in KeywordSets(n, FieldOrder[n])}

ValidDocuments == Documents(<<"server", "whisper", "vad">>)

ValidSources == {MissingFile, EmptyFile} \cup {FileWith(d) : d \in ValidDocuments}

\* documents with a key no section has
BadSources == {FileWith([server |-> [prt |-> 9000]]),
               FileWith([vad |-> [enabled |-> FALSE, treshold |-> 5]])}

----------------------------------------------------------------------------
(* Text: str.strip and the re.sub of transcription.py. *)

\* \s within the texts modelled
Whitespace == {" ", "\n"}
\* [\d:\.] within the texts modelled
StampChars == {"0", "1", "3", "5", ":", "."}

\* the first index at or after i whose character is outside class
RECURSIVE SkipClass(_, _, _)
SkipClass(s, i, class) ==
    IF i <= Len(s) /\ s[i] \in class THEN SkipClass(s, i + 1, class) ELSE i

\* the last index at or before i whose character is outside class
RECURSIVE SkipClassBack(_, _, _)
SkipClassBack(s, i, class) ==
    IF i >= 1 /\ s[i] \in class THEN SkipClassBack(s, i - 1, class) ELSE i

\* str.strip()
Strip(s) == SubSeq(s, SkipClass(s, 1, Whitespace), SkipClassBack(s, Len(s), Whitespace))

\* whether the literal --> stands at index i
ArrowAt(s, i) ==
    /\ i + 2 <= Len(s)
    /\ s[i] = "-" /\ s[i + 1] = "-" /\ s[i + 2] = ">"

\* re.match of \[[\d:\.]+\s*-->\s*[\d:\.]+\]\s* at index i: the index after
\* the match, or 0 when there is none.  Each repetition is greedy, and the
\* character that must follow it is outside its class, so no shorter
\* repetition can match.
MatchEnd(s, i) ==
    IF i > Len(s) \/ s[i] # "[" THEN 0
    ELSE LET a == SkipClass(s, i + 1, StampChars)
             b == SkipClass(s, a, Whitespace)
             c == SkipClass(s, b + 3, Whitespace)
             d == SkipClass(s, c, StampChars)
         IN IF a = i + 1 \/ ~ArrowAt(s, b) \/ d = c THEN 0
            ELSE IF d > Len(s) \/ s[d] # "]" THEN 0
            ELSE SkipClass(s, d + 1, Whitespace)

\* re.sub(pattern, '', s) from index i on: one pass, left to right, each
\* match dropped and the scan resumed after it
RECURSIVE ReSub(_, _)
ReSub(s, i) ==
    IF i > Len(s) THEN <<>>
    ELSE LET e == MatchEnd(s, i)
         IN IF e = 0 THEN <<s[i]>> \o ReSub(s, i + 1) ELSE ReSub(s, e)

\* a cleaning whose pattern leaves the whitespace after a marker in place
CleanText_KeepSpace(stdout) ==
    LET t == Strip(stdout)
        RECURSIVE Sub(_)
        Sub(i) == IF i > Len(t) THEN <<>>
                  ELSE LET e == MatchEnd(t, i)
                       IN IF e = 0 THEN <<t[i]>> \o Sub(i + 1)
                          ELSE Sub(SkipClassBack(t, e - 1, Whitespace) + 1)
    IN Strip(Sub(1))

\* text = result.stdout.strip(); text = re.sub(...); text = text.strip()
CleanText(stdout) == Strip(ReSub(Strip(stdout), 1))

----------------------------------------------------------------------------
(* transcription.py *)

NoConfig == [none |-> TRUE]
NoTranscriber == [none |-> TRUE]
NoResponse == [none |-> TRUE]

\* Path(__file__).parent.parent
ProjectRoot == "/srv/asr"

\* str((project_root / model_path).resolve()) of a relative, normalised path
ResolvedModelPath(model_path) == ProjectRoot \o "/" \o model_path

\* f.name of the n-th name tempfile can hand out
TempPath(n) == "/tmp/tmp" \o IntToStr(n) \o ".wav"

\* a constructor that does not verify the model
Transcriber_init_NoCheck(model_path, whisper_config, vad_config, exists) ==
    [ok |-> TRUE, error |-> "",
     value |-> [model_path |-> model_path, config |-> whisper_config,
                vad_config |-> vad_config]]

\* Transcriber.__init__; exists is self.model_path.exists()
Transcriber_init(model_path, whisper_config, vad_config, exists) ==
    IF exists
    THEN [ok |-> TRUE, error |-> "",
          value |-> [model_path |-> model_path, config |-> whisper_config,
                     vad_config |-> vad_config]]
    ELSE [ok |-> FALSE, error |-> "FileNotFoundError", value |-> NoTranscriber]

\* an override that only None leaves to the default
EffectiveLanguage_NoneOnly(language, default) ==
    IF language # NoLanguage THEN language ELSE default

\* language = language or self.config.language
EffectiveLanguage(language, default) ==
    IF Truthy(language) THEN language ELSE default

\* a command whose VAD block lacks the minimum silence duration
BuildCmd_PartialVad(model_path, language, threads, vad, temp_path) ==
    <<"whisper-cli", "-m", model_path, "-l", language, "-t", IntToStr(threads),
      "--no-timestamps", "-np">>
    \o (IF vad.enabled
        THEN <<"--vad", "-vt", FloatToStr(vad.threshold),
               "-vspd", IntToStr(vad.min_speech_duration_ms)>>
        ELSE <<>>)
    \o <<temp_path>>

\* cmd = [...]; cmd.extend([...]) if VAD is enabled; cmd.append(temp_path)
BuildCmd(model_path, language, threads, vad, temp_path) ==
    <<"whisper-cli", "-m", model_path, "-l", language, "-t", IntToStr(threads),
      "--no-timestamps", "-np">>
    \o (IF vad.enabled
        THEN <<"--vad", "-vt", FloatToStr(vad.threshold),
               "-vspd", IntToStr(vad.min_speech_duration_ms),
               "-vsd", IntToStr(vad.min_silence_duration_ms)>>
        ELSE <<>>)
    \o <<temp_path>>

FailedPrefix == <<"w","h","i","s","p","e","r","-","c","l","i"," ","f","a","i","l","e","d",":"," ">>

\* a failure message built from the captured standard output
FailureMessage_FromStdout(stdout, stderr) == FailedPrefix \o stdout

\* f"whisper-cli failed: {result.stderr}"
FailureMessage(stdout, stderr) == FailedPrefix \o stderr

\* what transcribe does with a completed process: raise on a non-zero
\* status, else clean the output into a TranscriptionResult
CompletedRun(returncode, stdout, stderr, language) ==
    IF returncode # 0
    THEN [exc |-> "RuntimeError", message |-> FailureMessage(stdout, stderr),
          result |-> <<>>]
    ELSE [exc |-> "", message |-> <<>>,
          result |-> <<[text |-> CleanText(stdout), language |-> language,
                        duration_ms |-> 0, segments |-> "None"]>>]

\* a run whose timeout raises without ending the child
TimedOutRun_ChildLeft ==
    [child |-> "running", exc |-> "TimeoutExpired",
     message |-> <<"t","i","m","e","d"," ","o","u","t">>, result |-> <<>>]

\* subprocess.run(cmd, timeout=60) when the timeout expires: the child is
\* killed and waited for, and TimeoutExpired is raised
TimedOutRun ==
    [child |-> "killed", exc |-> "TimeoutExpired",
     message |-> <<"t","i","m","e","d"," ","o","u","t">>, result |-> <<>>]

\* Path(temp_path).unlink(missing_ok=True): no error when the file is gone
Unlink(files, n) == files \ {n}

----------------------------------------------------------------------------
(* server.py *)

Requests == 1..NumRequests
TmpNames == 1..NumTmpNames

\* len(audio_data) of the uploads
AudioLengths == {0, 1}
\* the language form field: absent, empty, or a code
Languages == {NoLanguage, "", "de"}
\* what the engine may print
Stdouts == {<<"h","i">>, <<"[","0","-","-",">","1","]"," ","h","i","\n">>}
Stderrs == {<<>>, <<"b","a","d"," ","w","a","v","\n">>}

\* what config.yaml may hold when the server starts
StartupSources ==
    {MissingFile,
     FileWith([vad |-> [enabled |-> FALSE]]),
     FileWith([whisper |-> [language |-> "fr", threads |-> 12],
               vad |-> [threshold |-> 10, min_speech_duration_ms |-> 90]]),
     FileWith([server |-> [prt |-> 9000]])}

Idle == [pc |-> "idle", audio |-> 0, language |-> NoLanguage,
         lang |-> "", temp |-> 0, cmd |-> <<>>]

\* a handler that catches only the two exceptions it names
ExceptionResponse_NoCatchAll(exc, message) ==
    IF exc \in {"FileNotFoundError", "RuntimeError"}
    THEN [status |-> 500, detail |-> message, propagated |-> FALSE]
    ELSE [status |-> 500, detail |-> <<>>, propagated |-> TRUE]

\* the except clauses of the handler: every exception transcribe raises is
\* an Exception, and becomes HTTPException(500)
ExceptionResponse(exc, message) ==
    IF exc = "FileNotFoundError"
    THEN [status |-> 500, detail |-> message, propagated |-> FALSE]
    ELSE IF exc = "RuntimeError"
    THEN [status |-> 500, detail |-> message, propagated |-> FALSE]
    ELSE [status |-> 500,
          detail |-> <<"T","r","a","n","s","c","r","i","p","t","i","o","n"," ",
                       "f","a","i","l","e","d",":"," ">> \o message,
          propagated |-> FALSE]

\* the facts of one handler run, as the response it ends with records them
Call(r) ==
    [r |-> r, audio |-> req[r].audio, language |-> req[r].language,
     lang |-> req[r].lang, temp |-> req[r].temp, cmd |-> req[r].cmd,
     created |-> FALSE, spawns |-> 0, child |-> "none", timedOut |-> FALSE,
     returncode |-> 0, stdout |-> <<>>, stderr |-> <<>>,
     exc |-> "", message |-> <<>>, result |-> <<>>, unlinks |-> 0,
     status |-> 0, detail |-> <<>>, text |-> <<>>, propagated |-> FALSE]

\* raise HTTPException(status_code, detail)
Rejected(call, status, detail) ==
    [call EXCEPT !.status = status, !.detail = detail]

\* the handler's try block around a transcribe that raised or returned
Answered(call) ==
    IF call.exc = ""
    THEN [call EXCEPT !.status = 200, !.text = call.result[1].text]
    ELSE LET resp == ExceptionResponse(call.exc, call.message)
         IN [call EXCEPT !.status = resp.status, !.detail = resp.detail,
                         !.propagated = resp.propagated]

\* a handler whose transcribe runs off the event loop, in a thread
LoopFree_Threaded == TRUE

\* whether the event loop can run a request's coroutine: the handler is a
\* coroutine that calls the blocking transcribe itself, so the loop runs
\* nothing else until that call has returned
LoopFree == loop = 0

Init ==
    /\ phase = "imported"
    /\ modelFile \in BOOLEAN
    /\ cfgSrc \in StartupSources
    /\ config = NoConfig
    /\ transcriber = NoTranscriber
    /\ startupError = ""
    /\ loop = 0
    /\ req = [r \in Requests |-> Idle]
    /\ fs = {}
    /\ last = NoResponse
    /\ arg = <<>>
    /\ ret = <<>>

\* lifespan: load the configuration, build the Transcriber; an exception
\* aborts the startup
Startup ==
    /\ phase = "imported"
    /\ LET loaded == load_config(cfgSrc)
           t == Transcriber_init(ResolvedModelPath(loaded.value.whisper.model_path),
                                 loaded.value.whisper, loaded.value.vad, modelFile)
       IN IF ~loaded.ok
          THEN /\ phase' = "aborted"
               /\ startupError' = loaded.error
               /\ UNCHANGED <<config, transcriber>>
          ELSE /\ config' = loaded.value
               /\ transcriber' = t.value
               /\ startupError' = t.error
               /\ phase' = IF t.ok THEN "serving" ELSE "aborted"
    /\ UNCHANGED <<modelFile, cfgSrc, loop, req, fs, last, arg, ret>>

\* the application served by a host that sends no lifespan events: the
\* module-level transcriber and config stay None
ServeWithoutLifespan ==
    /\ phase = "imported"
    /\ phase' = "serving"
    /\ UNCHANGED <<modelFile, cfgSrc, config, transcriber, startupError,
                   loop, req, fs, last, arg, ret>>

\* a client connects and posts to /v1/audio/transcriptions
Arrive(r) ==
    /\ phase = "serving"
    /\ req[r].pc = "idle"
    /\ req' = [req EXCEPT ![r].pc = "queued"]
    /\ last' = NoResponse
    /\ UNCHANGED <<phase, modelFile, cfgSrc, config, transcriber, startupError,
                   loop, fs, arg, ret>>

\* the handler from its call to the await of file.read()
HandlerEnter(r) ==
    /\ phase = "serving"
    /\ req[r].pc = "queued"
    /\ LoopFree
    /\ \E audio \in AudioLengths, language \in Languages :
         LET call == [Call(r) EXCEPT !.audio = audio, !.language = language]
         IN IF transcriber = NoTranscriber
            THEN /\ last' = Rejected(call, 503,
                        <<"M","o","d","e","l"," ","n","o","t"," ","l","o","a","d","e","d">>)
                 /\ req' = [req EXCEPT ![r] = Idle]
            ELSE /\ last' = NoResponse
                 /\ req' = [req EXCEPT ![r].pc = "reading", ![r].audio = audio,
                                       ![r].language = language]
    /\ UNCHANGED <<phase, modelFile, cfgSrc, config, transcriber, startupError,
                   loop, fs, arg, ret>>

\* the handler from the return of file.read() on, and transcribe up to the
\* wait for the child process it has started
HandlerResume(r) ==
    /\ phase = "serving"
    /\ req[r].pc = "reading"
    /\ LoopFree
    /\ LET language == EffectiveLanguage(req[r].language, transcriber.config.language)
           call == [Call(r) EXCEPT !.lang = language]
       IN \/ \* an empty upload
             /\ req[r].audio = 0
             /\ last' = Rejected([call EXCEPT !.lang = ""], 400,
                    <<"E","m","p","t","y"," ","a","u","d","i","o"," ","f","i","l","e">>)
             /\ req' = [req EXCEPT ![r] = Idle]
             /\ UNCHANGED <<fs, loop>>
          \/ \* NamedTemporaryFile finds no unused name
             /\ req[r].audio > 0
             /\ TmpNames \subseteq fs
             /\ last' = Answered([call EXCEPT !.exc = "FileExistsError",
                    !.message = <<"n","o"," ","n","a","m","e">>])
             /\ req' = [req EXCEPT ![r] = Idle]
             /\ UNCHANGED <<fs, loop>>
          \/ \* the file is created, and f.write fails, before the try block
             /\ req[r].audio > 0
             /\ \E n \in TmpNames \ fs :
                  /\ fs' = fs \cup {n}
                  /\ last' = Answered([call EXCEPT !.created = TRUE, !.temp = n,
                         !.exc = "OSError",
                         !.message = <<"n","o"," ","s","p","a","c","e">>])
             /\ req' = [req EXCEPT ![r] = Idle]
             /\ UNCHANGED loop
          \/ \* the file is written, and whisper-cli cannot be started
             /\ req[r].audio > 0
             /\ \E n \in TmpNames \ fs :
                  /\ fs' = Unlink(fs \cup {n}, n)
                  /\ last' = Answered([call EXCEPT !.created = TRUE, !.temp = n,
                         !.cmd = BuildCmd(transcriber.model_path, language,
                                          transcriber.config.threads,
                                          transcriber.vad_config, TempPath(n)),
                         !.spawns = 1, !.unlinks = 1,
                         !.exc = "FileNotFoundError",
                         !.message = <<"n","o"," ","w","h","i","s","p","e","r","-","c","l","i">>])
             /\ req' = [req EXCEPT ![r] = Idle]
             /\ UNCHANGED loop
          \/ \* the file is written and the child process runs
             /\ req[r].audio > 0
             /\ \E n \in TmpNames \ fs :
                  /\ fs' = fs \cup {n}
                  /\ req' = [req EXCEPT ![r].pc = "running", ![r].lang = language,
                         ![r].temp = n,
                         ![r].cmd = BuildCmd(transcriber.model_path, language,
                                             transcriber.config.threads,
                                             transcriber.vad_config, TempPath(n))]
             /\ loop' = r
             /\ last' = NoResponse
    /\ UNCHANGED <<phase, modelFile, cfgSrc, config, transcriber, startupError,
                   arg, ret>>

\* the child process exits; transcribe finishes and the handler answers
EngineExit(r) ==
    /\ req[r].pc = "running"
    /\ \E returncode \in {0, 1}, stdout \in Stdouts, stderr \in Stderrs :
         LET run == CompletedRun(returncode, stdout, stderr, req[r].lang)
         IN last' = Answered([Call(r) EXCEPT !.created = TRUE, !.spawns = 1,
                !.child = "exited", !.returncode = returncode,
                !.stdout = stdout, !.stderr = stderr,
                !.exc = run.exc, !.message = run.message, !.result = run.result,
                !.unlinks = 1])
    /\ fs' = Unlink(fs, req[r].temp)
    /\ req' = [req EXCEPT ![r] = Idle]
    /\ loop' = IF loop = r THEN 0 ELSE loop
    /\ UNCHANGED <<phase, modelFile, cfgSrc, config, transcriber, startupError,
                   arg, ret>>

\* the timeout expires while the child process runs
EngineTimeout(r) ==
    /\ req[r].pc = "running"
    /\ last' = Answered([Call(r) EXCEPT !.created = TRUE, !.spawns = 1,
           !.child = TimedOutRun.child, !.timedOut = TRUE,
           !.exc = TimedOutRun.exc, !.message = TimedOutRun.message,
           !.result = TimedOutRun.result, !.unlinks = 1])
    /\ fs' = Unlink(fs, req[r].temp)
    /\ req' = [req EXCEPT ![r] = Idle]
    /\ loop' = IF loop = r THEN 0 ELSE loop
    /\ UNCHANGED <<phase, modelFile, cfgSrc, config, transcriber, startupError,
                   arg, ret>>

\* something outside the server removes a running call's temporary file
ExternalRemove(r) ==
    /\ req[r].pc = "running"
    /\ req[r].temp \in fs
    /\ fs' = fs \ {req[r].temp}
    /\ last' = NoResponse
    /\ UNCHANGED <<phase, modelFile, cfgSrc, config, transcriber, startupError,
                   loop, req, arg, ret>>

Next ==
    \/ Startup
    \/ ServeWithoutLifespan
    \/ \E r \in Requests :
         \/ Arrive(r)
         \/ HandlerEnter(r)
         \/ HandlerResume(r)
         \/ EngineExit(r)
         \/ EngineTimeout(r)
         \/ ExternalRemove(r)

Spec == Init /\ [][Next]_vars

----------------------------------------------------------------------------
(* ConfigSpec: load_config applied to one configuration source. *)

ConfigInit ==
    /\ phase = "imported"
    /\ modelFile = TRUE
    /\ cfgSrc \in ValidSources \cup BadSources
    /\ config = NoConfig
    /\ transcriber = NoTranscriber
    /\ startupError = ""
    /\ loop = 0
    /\ req = <<>>
    /\ fs = {}
    /\ last = NoResponse
    /\ arg = cfgSrc
    /\ ret = <<>>

\* config = load_config()
LoadConfig ==
    /\ ret = <<>>
    /\ ret' = <<load_config(arg)>>
    /\ UNCHANGED <<phase, modelFile, cfgSrc, config, transcriber, startupError,
                   loop, req, fs, last, arg>>

ConfigSpec == ConfigInit /\ [][LoadConfig]_vars

----------------------------------------------------------------------------
(* CleanSpec: the output cleaning of transcribe applied to one engine      *)
(* output, assembled from plain text and timestamp-range markers.          *)

Plain(text) == [marker |-> FALSE, text |-> text]
Marker(text) == [marker |-> TRUE, text |-> text]

ExactMarker ==
    <<"[">> \o <<"0","0",":","0","0",":","0","1",".","0","0","0">>
            \o <<" ","-","-",">"," ">>
            \o <<"0","0",":","0","0",":","0","3",".","5","0","0">> \o <<"]">>

\* text without the arrow, so that no marker forms across plain pieces
PlainPieces ==
    {Plain(<<"a">>), Plain(<<" ">>), Plain(<<"\n">>), Plain(<<"b"," "," ","c">>),
     Plain(<<" ","d">>), Plain(<<"[","0">>), Plain(<<"]">>)}

MarkerPieces ==
    {Marker(ExactMarker), Marker(<<"[","0","-","-",">","1","]">>),
     Marker(<<"[","1",":","0"," ","-","-",">"," "," ",".","5","]">>)}

Pieces == PlainPieces \cup MarkerPieces

PieceLists == UNION {[1..n -> Pieces] : n \in 0..MaxPieces}

RECURSIVE Flatten(_)
Flatten(pieces) ==
    IF pieces = <<>> THEN <<>> ELSE Head(pieces).text \o Flatten(Tail(pieces))

CleanInit ==
    /\ phase = "imported"
    /\ modelFile = TRUE
    /\ cfgSrc = MissingFile
    /\ config = NoConfig
    /\ transcriber = NoTranscriber
    /\ startupError = ""
    /\ loop = 0
    /\ req = <<>>
    /\ fs = {}
    /\ last = NoResponse
    /\ arg \in PieceLists
    /\ ret = <<>>

\* transcribe, from a zero exit status to the text of its result
CleanOutput ==
    /\ ret = <<>>
    /\ ret' = <<CleanText(Flatten(arg))>>
    /\ UNCHANGED <<phase, modelFile, cfgSrc, config, transcriber, startupError,
                   loop, req, fs, last, arg>>

CleanSpec == CleanInit /\ [][CleanOutput]_vars

----------------------------------------------------------------------------
(* Claims about the server and transcribe, under Spec. *)

Answering == last # NoResponse

Running(r) == req[r].pc = "running"

\* whether text occurs in message as a contiguous run
Contains(message, text) ==
    \E i \in 0..(Len(message) - Len(text)) :
        SubSeq(message, i + 1, i + Len(text)) = text

\* C1: a call of transcribe that has created its temporary file has deleted
\* it, by exactly one deletion, when the call returns or raises, on every
\* exit path.
C1_TempFileDeletedOnce ==
    (Answering /\ last.created) => (last.temp \notin fs /\ last.unlinks = 1)

\* C2: every request is answered by exactly one response: 503 when the
\* Transcriber is not initialized, else 400 for an empty upload, else 200
\* with the text when transcribe returns, else 500 with a detail for any
\* failure of transcribe; no failure leaves the handler, and the server
\* goes on serving: the request's slot and the event loop are free again.
C2_OneResponsePerRequest ==
    /\ [](Answering =>
            /\ last.status =
                 IF transcriber = NoTranscriber THEN 503
                 ELSE IF last.audio = 0 THEN 400
                 ELSE IF last.result # <<>> THEN 200
                 ELSE 500
            /\ last.status = 200 => last.text = last.result[1].text
            /\ last.status = 500 => (last.detail # <<>> /\ last.exc # "")
            /\ last.status \in {400, 503} => (~last.created /\ last.spawns = 0)
            /\ ~last.propagated
            /\ phase = "serving"
            /\ req[last.r] = Idle
            /\ loop = 0)
    /\ [][\A r \in Requests :
            (req[r].pc # "idle" /\ req'[r].pc = "idle") =>
                (last' # NoResponse /\ last'.r = r)]_vars

\* a request is answered 200 after an earlier request failed and left
\* its file behind
C2_Witness ==
    /\ Answering
    /\ last.status = 200
    /\ fs # {}

\* C3: when the child exits with a non-zero status transcribe returns no
\* result and raises a RuntimeError whose message contains the captured
\* standard error verbatim, whatever the standard output; the engine was
\* started once.
C3_NonZeroExitRaises ==
    (Answering /\ last.child = "exited" /\ last.returncode # 0) =>
        /\ last.result = <<>>
        /\ last.exc = "RuntimeError"
        /\ Contains(last.message, last.stderr)
        /\ last.spawns = 1

\* a non-zero exit with text on both streams
C3_Witness ==
    /\ Answering
    /\ last.child = "exited" /\ last.returncode # 0
    /\ last.stderr # <<>> /\ last.stdout # <<>>

\* C4: when the timeout expires while the child runs, the child is
\* terminated, no result is returned, the call ends in a timeout failure
\* that is not the runtime failure of a non-zero exit, and the caller is
\* answered with a transcription failure while the server stays up.
C4_TimeoutFailure ==
    (Answering /\ last.timedOut) =>
        /\ last.child = "killed"
        /\ last.result = <<>>
        /\ last.exc = "TimeoutExpired"
        /\ last.exc # CompletedRun(1, <<>>, <<>>, last.lang).exc
        /\ last.status = 500 /\ ~last.propagated
        /\ phase = "serving"
        /\ ~Running(last.r)

\* a call has timed out
C4_Witness == Answering /\ last.timedOut /\ last.status = 500

\* C5: when the model path does not exist as the Transcriber is built at
\* startup, construction fails with the model-not-found error, the startup
\* is aborted, and no request is ever handed to transcribe or answered; a
\* Transcriber exists only if its model path existed.
C5_NoModelNoService ==
    /\ (config # NoConfig /\ ~modelFile) =>
          /\ phase = "aborted"
          /\ startupError = "FileNotFoundError"
          /\ transcriber = NoTranscriber
    /\ phase = "aborted" =>
          /\ \A r \in Requests : req[r] = Idle
          /\ ~Answering
          /\ fs = {}
    /\ transcriber # NoTranscriber => modelFile

\* the startup has been aborted for a missing model
C5_Witness ==
    /\ phase = "aborted"
    /\ startupError = "FileNotFoundError"
    /\ config # NoConfig

VadFlags == {"--vad", "-vt", "-vspd", "-vsd"}

\* the argument list, position by position, for the Transcriber of the state
CmdAsSpecified(cmd, language, temp) ==
    LET vad == transcriber.vad_config
        block == SubSeq(cmd, 10, Len(cmd) - 1)
    IN /\ Len(cmd) = IF vad.enabled THEN 17 ELSE 10
       /\ cmd[1] = "whisper-cli"
       /\ cmd[2] = "-m" /\ cmd[3] = transcriber.model_path
       /\ cmd[4] = "-l" /\ cmd[5] = language
       /\ cmd[6] = "-t" /\ cmd[7] = IntToStr(transcriber.config.threads)
       /\ cmd[8] = "--no-timestamps" /\ cmd[9] = "-np"
       /\ cmd[Len(cmd)] = TempPath(temp)
       /\ vad.enabled =>
            /\ block[1] = "--vad"
            /\ block[2] = "-vt" /\ block[3] = FloatToStr(vad.threshold)
            /\ block[4] = "-vspd" /\ block[5] = IntToStr(vad.min_speech_duration_ms)
            /\ block[6] = "-vsd" /\ block[7] = IntToStr(vad.min_silence_duration_ms)
       /\ vad = VADConfig =>
            block = <<"--vad", "-vt", "0.5", "-vspd", "250", "-vsd", "700">>
       /\ \A i \in 1..Len(cmd) :
            cmd[i] \in VadFlags => (vad.enabled /\ i \in {10, 11, 13, 15})

C10_NeverHeldBack ==
    \A r \in Requests :
        (req[r].pc = "reading" /\ req[r].audio > 0) => ENABLED HandlerResume(r)

\* C10 as amended: at most one engine child process runs at any moment,
\* the one of the request holding the event loop, and its temporary file
\* is no other call's.
C10_OneEngineAtATime ==
    /\ Cardinality({r \in Requests : Running(r)}) <= 1
    /\ \A r \in Requests :
          Running(r) =>
             /\ loop = r
             /\ \A q \in Requests \ {r} : req[q].temp # req[r].temp

\* an engine runs while another request, its upload read, is in flight
C10_Witness ==
    \E r, q \in Requests :
        /\ r # q
        /\ Running(r)
        /\ req[q].pc = "reading" /\ req[q].audio > 0

----------------------------------------------------------------------------
(* Claims about load_config, under ConfigSpec. *)

\* whether the source gives the field a value
SourceGives(source, section, f) ==
    /\ source.exists /\ ~source.empty
    /\ section \in DOMAIN source.data
    /\ f \in DOMAIN source.data[section]

----------------------------------------------------------------------------
(* Claims about the output cleaning, under CleanSpec. *)

\* the pieces' text with every marker dropped and nothing else
RECURSIVE WithoutMarkers(_)
WithoutMarkers(pieces) ==
    IF pieces = <<>> THEN <<>>
    ELSE (IF Head(pieces).marker THEN <<>> ELSE Head(pieces).text)
            \o WithoutMarkers(Tail(pieces))

\* the pieces' text with every marker dropped together with the whitespace
\* that directly follows it
RECURSIVE WithoutMarkersAndGap(_, _)
WithoutMarkersAndGap(pieces, afterMarker) ==
    IF pieces = <<>> THEN <<>>
    ELSE LET p == Head(pieces)
             kept == IF afterMarker
                     THEN SubSeq(p.text, SkipClass(p.text, 1, Whitespace), Len(p.text))
                     ELSE p.text
         IN IF p.marker THEN WithoutMarkersAndGap(Tail(pieces), TRUE)
            ELSE kept \o WithoutMarkersAndGap(Tail(pieces), afterMarker /\ kept = <<>>)

\* C8 as stated: the returned text is the engine output with every
\* timestamp-range marker removed and the ends trimmed, every other
\* character, whitespace inside the text included, kept in order.
C8_OnlyMarkersRemoved ==
    ret # <<>> => ret[1] = Strip(WithoutMarkers(arg))

\* C8 as amended: the returned text is the engine output with every
\* timestamp-range marker removed together with the whitespace directly
\* following it, and the ends trimmed; every other character is kept in order.
C8_MarkersAndFollowingSpaceRemoved ==
    ret # <<>> => ret[1] = Strip(WithoutMarkersAndGap(arg, FALSE))

\* an output with text, a marker, whitespace and text again has been cleaned
C8_Witness ==
    /\ ret # <<>>
    /\ Len(arg) = 3
    /\ arg[1] = Plain(<<"b"," "," ","c">>) /\ arg[2].marker /\ arg[3] = Plain(<<" ","d">>)
    /\ ret[1] = <<"b"," "," ","c","d">>

====
